---- MODULE Spec2Model ----
(***************************************************************************)
(* Share-of-Volume dashboard (src/app.py): the batch fetch of Marketing    *)
(* Miner responses, the normalisation of the combined payload into         *)
(* (keyword, month, volume) records, and the pivot / range filter / share  *)
(* computation of the run_button handler.                                  *)
(*                                                                         *)
(* Text whose characters the code inspects (month keys, volume strings)    *)
(* is a sequence of one-character strings; names that are only compared    *)
(* (keywords, status, messages) are plain strings.                         *)
(***************************************************************************)
EXTENDS Integers, Sequences, FiniteSets, TLC

(***************************************************************************)
(* Python text and integer conversions used by process_mm_response         *)
(***************************************************************************)

Digits == <<"0", "1", "2", "3", "4", "5", "6", "7", "8", "9">>

IsDigitChar(c) == \E d \in 1..10 : Digits[d] = c

DigitVal(c) == (CHOOSE d \in 1..10 : Digits[d] = c) - 1

\* str.isdigit(): non-empty and every character a digit
IsDigit(s) == Len(s) > 0 /\ \A k \in 1..Len(s) : IsDigitChar(s[k])

\* str.replace(ch, '')
Replace(s, ch) == SelectSeq(s, LAMBDA c : c # ch)

RECURSIVE NatToText(_)
NatToText(n) ==
    IF n < 10 THEN <<Digits[n + 1]>>
    ELSE NatToText(n \div 10) \o <<Digits[(n % 10) + 1]>>

\* str(n) of a Python int
IntToText(n) == IF n < 0 THEN <<"-">> \o NatToText(-n) ELSE NatToText(n)

\* the largest value a C int argument holds; datetime() converts its
\* arguments to C ints and raises OverflowError beyond it
CIntMax == 2147483647

\* the value of a digit string, or -1 when it does not fit a C int
RECURSIVE NatOfDigits(_, _)
NatOfDigits(ds, acc) ==
    IF ds = <<>> THEN acc
    ELSE LET d == DigitVal(Head(ds)) IN
         IF acc > CIntMax \div 10 \/ (acc = CIntMax \div 10 /\ d > CIntMax % 10)
         THEN -1
         ELSE NatOfDigits(Tail(ds), acc * 10 + d)

\* the digits of the magnitude of the smallest C int, -2147483648
CIntMinText == <<"2", "1", "4", "7", "4", "8", "3", "6", "4", "8">>

RECURSIVE StripZeros(_)
StripZeros(ds) ==
    IF Len(ds) > 1 /\ Head(ds) = "0" THEN StripZeros(Tail(ds)) ELSE ds

\* int(s) of a Python str: an optional sign, then digits; anything else is
\* a ValueError.  fits = FALSE marks a value beyond a C int (Python's own
\* int holds it; only the C conversion in datetime() fails on it), and val
\* is the value wherever it fits.
PyInt(s) ==
    LET signed   == Len(s) > 0 /\ s[1] \in {"-", "+"}
        negative == signed /\ s[1] = "-"
        body     == IF signed THEN Tail(s) ELSE s
        mag      == IF IsDigit(body) THEN NatOfDigits(body, 0) ELSE 0
        lowest   == negative /\ IsDigit(body) /\ StripZeros(body) = CIntMinText
    IN  [err  |-> ~IsDigit(body),
         fits |-> mag # -1 \/ lowest,
         val  |-> IF lowest THEN -CIntMax - 1
                  ELSE IF negative THEN -mag ELSE mag]

(***************************************************************************)
(* JSON values                                                             *)
(***************************************************************************)

Some(x) == [has |-> TRUE, v |-> x]
None == [has |-> FALSE, v |-> ""]

JInt(n) == [t |-> "int", i |-> n, s |-> <<>>]
JStr(s) == [t |-> "str", i |-> 0, s |-> s]
\* a float carries its repr, which always holds a '.', an 'e' or letters
JFloat(whole, repr) == [t |-> "float", i |-> whole, s |-> repr]
JNull == [t |-> "null", i |-> 0, s |-> <<>>]

\* str(volume)
PyStr(volume) == IF volume.t = "int" THEN IntToText(volume.i) ELSE volume.s

Date(y, m, d) == [y |-> y, m |-> m, d |-> d]
NoDate == Date(0, 0, 0)

(***************************************************************************)
(* process_mm_response: the Response Normalizer                            *)
(***************************************************************************)

\* one entry of debug_info
Diag(kind, keyword, month_str, n) ==
    [kind |-> kind, keyword |-> keyword, month_str |-> month_str, n |-> n]

\* one st.warning / st.error / st.success call
Notice(level, kind, keyword) == [level |-> level, kind |-> kind, keyword |-> keyword]

DefaultMessage == "Neznama chyba API"

\* the status test that refuses only a status that is present and wrong
StatusNotError(json_data) == ~json_data.status.has \/ json_data.status.v = "success"

\* json_data.get('status') != 'success' is the failure test
StatusOk(json_data) == json_data.status.has /\ json_data.status.v = "success"

\* only a missing 'data' key taken for no data
DataGiven(data) == data.kind # "absent"

\* truthiness of json_data.get('data', [])
DataTruthy(data) == data.kind = "other" \/ (data.kind = "list" /\ data.items # <<>>)

\* truthiness of item.get('monthly_sv', {})
MonthlyTruthy(monthly) ==
    monthly.kind = "list" \/ (monthly.kind = "dict" /\ monthly.cells # <<>>)

\* the current month itself dated a year back
ResolveYearStrict(month_num, current_month, current_year) ==
    IF month_num < current_month THEN current_year ELSE current_year - 1

\* the year a month number is dated in
ResolveYear(month_num, current_month, current_year) ==
    IF month_num <= current_month THEN current_year ELSE current_year - 1

\* volume_int: int(volume) when str(volume) without '-' is all digits, else 0;
\* err is the ValueError int() raises on text such as "5-"
VolumeInt(volume) ==
    IF volume.t \in {"int", "float", "str"} /\ IsDigit(Replace(PyStr(volume), "-"))
    THEN IF volume.t = "str"
         THEN [err |-> PyInt(volume.s).err, val |-> PyInt(volume.s).val]
         ELSE [err |-> FALSE, val |-> volume.i]
    ELSE [err |-> FALSE, val |-> 0]

VolumeRecord(keyword, date, volume) ==
    [Keyword |-> keyword, Date |-> date, Volume |-> volume]

NoRecord == VolumeRecord("", NoDate, 0)

\* the body of the try block for one (month_str, volume) pair:
\*   out = "record": the record appended to all_data
\*   out = "skip":   ValueError/TypeError, caught by the except clause
\*   out = "raise":  an exception the except clause does not name
ProcessCell(keyword_name, cell, now) ==
    LET p == PyInt(cell.month_str) IN
    IF p.err THEN [out |-> "skip", rec |-> NoRecord, err |-> "ValueError"]
    ELSE IF ~p.fits THEN [out |-> "raise", rec |-> NoRecord, err |-> "OverflowError"]
    ELSE LET month_num == p.val
             year      == ResolveYear(month_num, now.m, now.y)
             v         == VolumeInt(cell.volume)
         IN  IF month_num \notin 1..12 \/ v.err
             THEN [out |-> "skip", rec |-> NoRecord, err |-> "ValueError"]
             ELSE [out |-> "record",
                   rec |-> VolumeRecord(keyword_name, Date(year, month_num, 1), v.val),
                   err |-> ""]

\* the loop over monthly_data.items(); acc.error # "" once an exception
\* has left the loop
RECURSIVE ProcessCells(_, _, _, _)
ProcessCells(acc, keyword_name, cells, now) ==
    IF cells = <<>> \/ acc.error # "" THEN acc
    ELSE LET cell == Head(cells)
             r    == ProcessCell(keyword_name, cell, now)
             next ==
                 CASE r.out = "record" ->
                        [acc EXCEPT !.all_data = Append(@, r.rec)]
                   [] r.out = "skip" ->
                        [acc EXCEPT !.debug_info =
                            Append(@, Diag("cell_problem", keyword_name, cell.month_str, 0))]
                   [] OTHER ->
                        [acc EXCEPT !.error = r.err]
         IN  ProcessCells(next, keyword_name, Tail(cells), now)

\* the body of the loop over data for one item
ProcessItem(acc, item, now) ==
    IF ~item.isdict THEN acc
    ELSE LET keyword_name == IF item.keyword.has THEN item.keyword.v ELSE "Unknown"
             named == [acc EXCEPT !.processed_keywords = Append(@, keyword_name)]
         IN  IF ~MonthlyTruthy(item.monthly_sv)
             THEN [named EXCEPT !.debug_info =
                      Append(@, Diag("no_monthly", keyword_name, <<>>, 0))]
             ELSE LET noted == [named EXCEPT !.debug_info =
                                   Append(@, Diag("processing", keyword_name, <<>>, 0))]
                  IN  IF item.monthly_sv.kind = "dict"
                      THEN ProcessCells(noted, keyword_name, item.monthly_sv.cells, now)
                      ELSE noted

RECURSIVE ProcessItems(_, _, _)
ProcessItems(acc, items, now) ==
    IF items = <<>> \/ acc.error # "" THEN acc
    ELSE ProcessItems(ProcessItem(acc, Head(items), now), Tail(items), now)

DateKey(date) == (date.y * 12 + date.m) * 32 + date.d

\* df.sort_values('Date'); the order of records of one date is not relied on
RECURSIVE InsertByDate(_, _)
InsertByDate(sorted, rec) ==
    IF sorted = <<>> THEN <<rec>>
    ELSE IF DateKey(Head(sorted).Date) <= DateKey(rec.Date)
         THEN <<Head(sorted)>> \o InsertByDate(Tail(sorted), rec)
         ELSE <<rec>> \o sorted

RECURSIVE SortByDate(_)
SortByDate(records) ==
    IF records = <<>> THEN <<>>
    ELSE InsertByDate(SortByDate(SubSeq(records, 1, Len(records) - 1)),
                      records[Len(records)])

\* the per-keyword summary lines appended to debug_info
DateLines(processed_keywords, all_data) ==
    LET HasData(kw) == \E k \in 1..Len(all_data) : all_data[k].Keyword = kw
        kept == SelectSeq(processed_keywords, HasData)
    IN  [k \in 1..Len(kept) |-> Diag("dates", kept[k], <<>>, 0)]

Returned(df, keywords, debug_info, notices) ==
    [raised |-> FALSE, error |-> "", error_message |-> "",
     df |-> df, keywords |-> keywords, debug_info |-> debug_info, notices |-> notices]

Raised(error, error_message) ==
    [raised |-> TRUE, error |-> error, error_message |-> error_message,
     df |-> <<>>, keywords |-> <<>>, debug_info |-> <<>>, notices |-> <<>>]

\* len(data): the length of a list, the number of keys of a JSON object
PyLen(data) ==
    IF data.kind = "list" THEN Len(data.items)
    ELSE LET value == data.items[1]
         IN  (IF value.keyword.has THEN 1 ELSE 0)
                + (IF value.monthly_sv.kind # "absent" THEN 1 ELSE 0)

process_mm_response(json_data, now) ==
    IF ~StatusOk(json_data)
    THEN Raised("Exception",
                IF json_data.message.has THEN json_data.message.v ELSE DefaultMessage)
    ELSE IF ~DataTruthy(json_data.data)
    THEN Returned(<<>>, <<>>, <<>>, <<Notice("warning", "empty_data", "")>>)
    ELSE
      LET acc0 == [all_data |-> <<>>, processed_keywords |-> <<>>,
                   debug_info |-> <<Diag("count", "", <<>>, PyLen(json_data.data))>>,
                   error |-> ""]
          acc  == IF json_data.data.kind = "list"
                  THEN ProcessItems(acc0, json_data.data.items, now)
                  ELSE acc0
          done == IF acc.processed_keywords # <<>>
                  THEN <<Notice("success", "processed", "")>> ELSE <<>>
          debug_info == Append(acc.debug_info, Diag("total", "", <<>>, Len(acc.all_data)))
                          \o DateLines(acc.processed_keywords, acc.all_data)
      IN  IF acc.error # "" THEN Raised(acc.error, "")
          ELSE IF acc.all_data = <<>>
          THEN Returned(<<>>, <<>>, debug_info, done \o <<Notice("error", "no_valid_data", "")>>)
          ELSE Returned(SortByDate(acc.all_data), acc.processed_keywords, debug_info, done)

(***************************************************************************)
(* fetch_mm_data: one request per keyword, responses combined              *)
(***************************************************************************)

Absent == [kind |-> "absent", items |-> <<>>]
ListOf(items) == [kind |-> "list", items |-> items]
\* a 'data' value that is no list: the one value itself is items[1]
OtherData(value) == [kind |-> "other", items |-> <<value>>]

Response(status, message, data) == [status |-> status, message |-> message, data |-> data]
NoResponse == Response(None, None, Absent)

\* the loop left at the first failure
BreakOnFetchError(i, n) == n + 1

\* the loop index after the except clause: continue with the next keyword
AfterFetchError(i, n) == i + 1

\* combined_response: status 'success' and the data of every response
\* whose status is 'success' and that has a 'data' key, lists extended,
\* other values appended
RECURSIVE CombinedItems(_)
CombinedItems(responses) ==
    IF responses = <<>> THEN <<>>
    ELSE LET response == Head(responses) IN
         (IF response.status = Some("success") /\ response.data.kind # "absent"
          THEN response.data.items ELSE <<>>)
         \o CombinedItems(Tail(responses))

combined_response(responses) ==
    Response(Some("success"), None, ListOf(CombinedItems(responses)))

(***************************************************************************)
(* run_button: pivot, month-range filter, totals and shares                *)
(***************************************************************************)

TotalVolume == "Total Volume"

Frame(index, columns, at) == [index |-> index, columns |-> columns, at |-> at]
EmptyFrame == Frame(<<>>, {}, <<>>)

Range(s) == {s[k] : k \in 1..Len(s)}

RECURSIVE SortDates(_)
SortDates(dates) ==
    IF dates = {} THEN <<>>
    ELSE LET first == CHOOSE d \in dates : \A e \in dates : DateKey(d) <= DateKey(e)
         IN  <<first>> \o SortDates(dates \ {first})

\* DataFrame.pivot raises ValueError when an (index, column) pair repeats
HasDuplicates(df) ==
    \E a, b \in 1..Len(df) :
        a < b /\ df[a].Date = df[b].Date /\ df[a].Keyword = df[b].Keyword

\* long_df.pivot(index='Date', columns='Keyword', values='Search Volume').fillna(0)
Pivot(df) ==
    LET dates   == {df[k].Date : k \in 1..Len(df)}
        columns == {df[k].Keyword : k \in 1..Len(df)}
        ValueAt(d, kw) ==
            LET hits == {k \in 1..Len(df) : df[k].Date = d /\ df[k].Keyword = kw}
            IN  IF hits = {} THEN 0 ELSE df[CHOOSE k \in hits : TRUE].Volume
    IN  Frame(SortDates(dates), columns,
              [c \in dates \X columns |-> ValueAt(c[1], c[2])])

\* Timestamp.to_period('M'): the month, whatever the day
Period(date) == date.y * 12 + date.m

\* the range compared by full dates, days included
InRangeByDay(date, start, end) ==
    DateKey(date) >= DateKey(start) /\ DateKey(date) <= DateKey(end)

InRange(date, start, end) ==
    Period(date) >= Period(start) /\ Period(date) <= Period(end)

\* wide_df[(period >= start period) & (period <= end period)]
Filter(frame, start, end) ==
    LET index == SelectSeq(frame.index, LAMBDA d : InRange(d, start, end))
    IN  Frame(index, frame.columns,
              [c \in Range(index) \X frame.columns |-> frame.at[c]])

RECURSIVE SumOver(_, _, _)
SumOver(frame, d, columns) ==
    IF columns = {} THEN 0
    ELSE LET kw == CHOOSE c \in columns : TRUE
         IN  frame.at[<<d, kw>>] + SumOver(frame, d, columns \ {kw})

\* frame['Total Volume'] = frame.sum(axis=1): the sum of every column the
\* frame has, stored under the name 'Total Volume'
WithTotal(frame) ==
    LET columns == frame.columns \cup {TotalVolume}
    IN  Frame(frame.index, columns,
              [c \in Range(frame.index) \X columns |->
                  IF c[2] = TotalVolume THEN SumOver(frame, c[1], frame.columns)
                  ELSE frame.at[c]])

\* a share is the exact quotient num / den, den > 0
Ratio(num, den) == [num |-> num, den |-> den]

\* the share without the sign of the total: any total other than 0 divides
ShareCellNonZero(volume, total) ==
    IF total # 0 THEN Ratio(volume * 100, total) ELSE Ratio(0, 1)

\* (row[kw] / row['Total Volume']) * 100 if row['Total Volume'] > 0 else 0
ShareCell(volume, total) ==
    IF total > 0 THEN Ratio(volume * 100, total) ELSE Ratio(0, 1)

AvailableKeywords(frame) == {col \in frame.columns : col # TotalVolume}

\* sov_df: one column per available keyword
Shares(frame) ==
    LET columns == AvailableKeywords(frame)
    IN  Frame(frame.index, columns,
              [c \in Range(frame.index) \X columns |->
                  ShareCell(frame.at[c], frame.at[<<c[1], TotalVolume>>])])

\* frame.drop(columns='Total Volume')
DropTotal(frame) ==
    LET columns == frame.columns \ {TotalVolume}
    IN  Frame(frame.index, columns,
              [c \in Range(frame.index) \X columns |-> frame.at[c]])

\* a table without rows or of zeros only taken for empty
IsEmptyOrAllZero(frame) ==
    \/ frame.index = <<>>
    \/ frame.columns = {}
    \/ \A c \in DOMAIN frame.at : frame.at[c] = 0

\* DataFrame.empty: some axis has length 0
IsEmpty(frame) == frame.index = <<>> \/ frame.columns = {}

(***************************************************************************)
(* Inputs: bounded samples of keyword lists, upstream responses, payloads, *)
(* clocks and date ranges                                                  *)
(***************************************************************************)

MaxKeywords == 2
MaxCells == 2

SeqsUpTo(S, n) == UNION {[1..k -> S] : k \in 0..n}

Cell(month_str, volume) == [month_str |-> month_str, volume |-> volume]

\* a JSON object has each key once: the month keys of a mapping differ
Mappings(cells, n) ==
    {m \in SeqsUpTo(cells, n) :
        \A a, b \in 1..Len(m) : a # b => m[a].month_str # m[b].month_str}

MonthlyDict(cells) == [kind |-> "dict", cells |-> cells]
MonthlyList == [kind |-> "list", cells |-> <<>>]
MonthlyAbsent == [kind |-> "absent", cells |-> <<>>]

Item(keyword, monthly) == [isdict |-> TRUE, keyword |-> keyword, monthly_sv |-> monthly]
\* an element of data that is no JSON object
NonDictItem == [isdict |-> FALSE, keyword |-> None, monthly_sv |-> MonthlyAbsent]

KeywordNames == {"fingo", "hyponamiru"}

KeywordLists == SeqsUpTo(KeywordNames, MaxKeywords) \ {<<>>}

\* month keys and volumes as the API may send them
GoodVolume == JInt(100)

SampleVolumes ==
    {GoodVolume, JInt(-5), JStr(<<"3", "0", "0">>), JStr(<<"-", "5">>), JStr(<<"-">>),
     JStr(<<"n", "/", "a">>), JStr(<<"5", "-">>), JFloat(2, <<"2", ".", "5">>), JNull}

SampleMonthKeys ==
    {<<"0", "1">>, <<"1", "2">>, <<"1", "3">>, <<"0">>, <<"x">>, <<"-", "1">>,
     <<"2", "1", "4", "7", "4", "8", "3", "6", "4", "7">>,
     <<"2", "1", "4", "7", "4", "8", "3", "6", "4", "8">>}

NormCells ==
    {Cell(<<"1">>, v) : v \in SampleVolumes}
        \cup {Cell(k, GoodVolume) : k \in SampleMonthKeys}

NormItems ==
    {Item(Some(kw), MonthlyDict(m)) :
        kw \in {"fingo", "hyponamiru"}, m \in Mappings(NormCells, MaxCells)}
        \cup {Item(None, MonthlyDict(<<Cell(<<"1">>, GoodVolume)>>)),
              Item(Some("fingo"), MonthlyAbsent), Item(Some("fingo"), MonthlyList),
              NonDictItem}

PlainItems ==
    {Item(Some("hyponamiru"), MonthlyDict(<<Cell(<<"1">>, GoodVolume)>>)),
     Item(Some("fingo"), MonthlyDict(<<Cell(<<"2">>, JInt(300)), Cell(<<"1", "1">>, JInt(40))>>))}

\* the twelve cells "1" .. "12" the API documents for one keyword
CanonicalItem ==
    Item(Some("fingo"), MonthlyDict([m \in 1..12 |-> Cell(IntToText(m), JInt(10 * m))]))

\* payloads handed to process_mm_response
NormPayloads ==
    {Response(Some("success"), None, ListOf(before \o <<item>> \o after)) :
        before \in SeqsUpTo(PlainItems, 1), item \in NormItems,
        after \in SeqsUpTo(PlainItems, 1)}
        \cup {Response(Some("success"), None, d) :
                d \in {Absent, ListOf(<<>>), OtherData(CanonicalItem)}}
        \cup {Response(s, msg, d) :
                s \in {None, Some("error")}, msg \in {None, Some("limit exceeded")},
                d \in {Absent, ListOf(<<CanonicalItem>>)}}

CanonicalPayloads == {Response(Some("success"), None, ListOf(<<CanonicalItem>>))}

SampleNow == Date(2024, 5, 15)

Clocks == {Date(y, m, 15) : y \in {2024, 2025}, m \in 1..12}

\* what one request for a keyword may bring: an entry for the keyword asked
\* for, or one under another name
PipeCells ==
    {Cell(<<"1">>, JInt(100)), Cell(<<"0", "1">>, JInt(300)),
     Cell(<<"1">>, JStr(<<"-", "5">>)), Cell(<<"2">>, JStr(<<"-">>))}

Responses(keyword) ==
    {Response(Some("success"), None, ListOf(<<Item(Some(keyword), MonthlyDict(m))>>)) :
        m \in Mappings(PipeCells, MaxCells)}
        \cup {Response(Some("error"), Some("limit exceeded"), Absent),
              Response(Some("success"), None, Absent),
              Response(Some("success"), None, ListOf(<<>>)),
              Response(Some("success"), None,
                       OtherData(Item(Some(keyword), MonthlyDict(<<Cell(<<"1">>, JInt(100))>>)))),
              Response(Some("success"), None,
                       ListOf(<<Item(None, MonthlyDict(<<Cell(<<"1">>, JInt(100))>>))>>)),
              Response(Some("success"), None,
                       ListOf(<<Item(Some(TotalVolume),
                                     MonthlyDict(<<Cell(<<"1">>, JInt(100))>>))>>))}

Outcome(raised, response) == [raised |-> raised, response |-> response]

\* fetch_mm_data_single under st.cache_data: a cached keyword returns its
\* cached response; otherwise the request raises (no connection, a status
\* code other than 200, a body that is no JSON) or returns the decoded body
fetch_mm_data_single(keyword, cached) ==
    IF keyword \in DOMAIN cached
    THEN {Outcome(FALSE, cached[keyword])}
    ELSE {Outcome(TRUE, NoResponse)} \cup {Outcome(FALSE, r) : r \in Responses(keyword)}

DateRanges ==
    {<<Date(2024, 1, 15), Date(2024, 1, 20)>>, <<Date(2024, 1, 31), Date(2024, 2, 1)>>,
     <<Date(2024, 2, 10), Date(2024, 3, 1)>>, <<Date(2023, 2, 1), Date(2023, 12, 31)>>,
     <<Date(2024, 3, 1), Date(2024, 4, 30)>>, <<Date(2024, 2, 15), Date(2024, 1, 15)>>}

PipelineClocks == {SampleNow, Date(2024, 1, 20)}

(***************************************************************************)
(* State                                                                   *)
(***************************************************************************)

VARIABLES
    pc,                \* where the run is
    now,               \* datetime.now()
    keyword_list,      \* the keywords of the sidebar
    start_date,        \* the date inputs of the sidebar
    end_date,
    i,                 \* fetch_mm_data: position in keyword_list
    all_responses,     \* fetch_mm_data: the responses received
    api_log,           \* what each request of the batch brought, in order
    cache,             \* st.cache_data of fetch_mm_data_single
    st_log,            \* the st.error / st.warning / st.success calls made
    raw_data,          \* the payload handed to process_mm_response
    processed,         \* what process_mm_response returned or raised
    wide_df,
    wide_df_filtered,
    sov_df,
    volume_df

vars == <<pc, now, keyword_list, start_date, end_date, i, all_responses, api_log,
          cache, st_log, raw_data, processed, wide_df, wide_df_filtered, sov_df,
          volume_df>>

long_df == processed.df
actual_keywords == processed.keywords
debug_info == processed.debug_info
available_keywords == sov_df.columns

NotProcessed == Returned(<<>>, <<>>, <<>>, <<>>)

Blank ==
    /\ i = 1
    /\ all_responses = <<>>
    /\ api_log = <<>>
    /\ cache = <<>>
    /\ st_log = <<>>
    /\ processed = NotProcessed
    /\ wide_df = EmptyFrame
    /\ wide_df_filtered = EmptyFrame
    /\ sov_df = EmptyFrame
    /\ volume_df = EmptyFrame

\* the run button pressed with an API key and at least one keyword
Init ==
    /\ pc = "fetch"
    /\ now \in PipelineClocks
    /\ keyword_list \in KeywordLists
    /\ \E r \in DateRanges : start_date = r[1] /\ end_date = r[2]
    /\ raw_data = NoResponse
    /\ Blank

\* process_mm_response about to be called on a payload
InitNorm ==
    /\ pc = "call"
    /\ \/ raw_data \in NormPayloads /\ now = SampleNow
       \/ raw_data \in CanonicalPayloads /\ now \in Clocks
    /\ keyword_list = <<>>
    /\ start_date = NoDate
    /\ end_date = NoDate
    /\ Blank

(***************************************************************************)
(* Actions                                                                 *)
(***************************************************************************)

CachePut(cached, keyword, response) ==
    [k \in DOMAIN cached \cup {keyword} |-> IF k = keyword THEN response ELSE cached[k]]

\* the two st.error calls of the except clause that closes the run
RunFailed == <<Notice("error", "run_failed", ""), Notice("error", "see_details", "")>>

\* fetch_mm_data, one pass of the loop over keyword_list
FetchKeyword ==
    /\ pc = "fetch"
    /\ i <= Len(keyword_list)
    /\ LET keyword == keyword_list[i] IN
       \E outcome \in fetch_mm_data_single(keyword, cache) :
          /\ api_log' = Append(api_log, [keyword |-> keyword, raised |-> outcome.raised,
                                         response |-> outcome.response])
          /\ IF outcome.raised
             THEN /\ st_log' = Append(st_log, Notice("error", "fetch_failed", keyword))
                  /\ i' = AfterFetchError(i, Len(keyword_list))
                  /\ UNCHANGED <<all_responses, cache>>
             ELSE /\ all_responses' = Append(all_responses, outcome.response)
                  /\ cache' = CachePut(cache, keyword, outcome.response)
                  /\ i' = i + 1
                  /\ UNCHANGED st_log
    /\ UNCHANGED <<pc, now, keyword_list, start_date, end_date, raw_data, processed,
                   wide_df, wide_df_filtered, sov_df, volume_df>>

\* fetch_mm_data after the loop: the combined response is returned
Combine ==
    /\ pc = "fetch"
    /\ i > Len(keyword_list)
    /\ raw_data' = combined_response(all_responses)
    /\ pc' = "process"
    /\ UNCHANGED <<now, keyword_list, start_date, end_date, i, all_responses, api_log,
                   cache, st_log, processed, wide_df, wide_df_filtered, sov_df,
                   volume_df>>

\* run_button: process_mm_response(raw_data) and the long_df.empty test
ProcessResponse ==
    /\ pc = "process"
    /\ processed' = process_mm_response(raw_data, now)
    /\ IF processed'.raised
       THEN /\ st_log' = st_log \o RunFailed
            /\ pc' = "done"
       ELSE IF processed'.df = <<>>
       THEN /\ st_log' = st_log \o processed'.notices \o <<Notice("error", "no_data", "")>>
            /\ pc' = "done"
       ELSE /\ st_log' = st_log \o processed'.notices
            /\ pc' = "pivot"
    /\ UNCHANGED <<now, keyword_list, start_date, end_date, i, all_responses, api_log,
                   cache, raw_data, wide_df, wide_df_filtered, sov_df, volume_df>>

\* run_button: the pivot; its ValueError is caught by the closing except
PivotStep ==
    /\ pc = "pivot"
    /\ IF HasDuplicates(long_df)
       THEN /\ st_log' = st_log \o RunFailed
            /\ pc' = "done"
            /\ UNCHANGED wide_df
       ELSE /\ wide_df' = Pivot(long_df)
            /\ pc' = "filter"
            /\ UNCHANGED st_log
    /\ UNCHANGED <<now, keyword_list, start_date, end_date, i, all_responses, api_log,
                   cache, raw_data, processed, wide_df_filtered, sov_df, volume_df>>

\* run_button: the month-range filter and the wide_df_filtered.empty test
FilterStep ==
    /\ pc = "filter"
    /\ wide_df_filtered' = Filter(wide_df, start_date, end_date)
    /\ IF IsEmpty(wide_df_filtered')
       THEN /\ st_log' = Append(st_log, Notice("warning", "empty_range", ""))
            /\ pc' = "done"
       ELSE /\ pc' = "share"
            /\ UNCHANGED st_log
    /\ UNCHANGED <<now, keyword_list, start_date, end_date, i, all_responses, api_log,
                   cache, raw_data, processed, wide_df, sov_df, volume_df>>

\* run_button: the 'Total Volume' column, sov_df and volume_df
ShareStep ==
    /\ pc = "share"
    /\ wide_df_filtered' = WithTotal(wide_df_filtered)
    /\ sov_df' = Shares(WithTotal(wide_df_filtered))
    /\ volume_df' = DropTotal(WithTotal(wide_df_filtered))
    /\ pc' = "rendered"
    /\ UNCHANGED <<now, keyword_list, start_date, end_date, i, all_responses, api_log,
                   cache, st_log, raw_data, processed, wide_df>>

\* process_mm_response called on its own
CallProcess ==
    /\ pc = "call"
    /\ processed' = process_mm_response(raw_data, now)
    /\ pc' = "returned"
    /\ UNCHANGED <<now, keyword_list, start_date, end_date, i, all_responses, api_log,
                   cache, st_log, raw_data, wide_df, wide_df_filtered, sov_df, volume_df>>

Next ==
    \/ FetchKeyword
    \/ Combine
    \/ ProcessResponse
    \/ PivotStep
    \/ FilterStep
    \/ ShareStep

Spec == Init /\ [][Next]_vars

NextNorm == CallProcess

SpecNorm == InitNorm /\ [][NextNorm]_vars

(***************************************************************************)
(* Properties                                                              *)
(***************************************************************************)

KeywordOf(item) == IF item.keyword.has THEN item.keyword.v ELSE "Unknown"

HasCells(item) == item.isdict /\ item.monthly_sv.kind = "dict"

\* the (keyword, cell) pairs of a payload's keyword entries
PayloadCells(json_data) ==
    IF json_data.data.kind # "list" THEN {}
    ELSE LET items == json_data.data.items IN
         UNION {{<<KeywordOf(items[a]), items[a].monthly_sv.cells[b]>> :
                    b \in 1..Len(items[a].monthly_sv.cells)} :
                a \in {x \in 1..Len(items) : HasCells(items[x])}}

ValidMonthKey(month_str) ==
    LET p == PyInt(month_str) IN ~p.err /\ p.fits /\ p.val \in 1..12

\* the month a valid key names, in the twelve months that end at the clock's
TrailingMonth(month_str, clock) ==
    LET m == PyInt(month_str).val
    IN  Date(IF m <= clock.m THEN clock.y ELSE clock.y - 1, m, 1)

ParseableNonNegative(volume) ==
    \/ volume.t = "int" /\ volume.i >= 0
    \/ volume.t = "str" /\ IsDigit(volume.s)

Returns == pc = "returned" /\ StatusOk(raw_data)

\* C1: on a success payload whose month keys are all valid, the call does
\* not raise, every cell whose volume is no parseable non-negative integer
\* yields a record of volume 0, and every record has a volume >= 0.
C1_UnparseableVolumeIsZero ==
    (Returns /\ \A c \in PayloadCells(raw_data) : ValidMonthKey(c[2].month_str)) =>
        /\ ~processed.raised
        /\ \A k \in 1..Len(long_df) : long_df[k].Volume >= 0
        /\ \A c \in PayloadCells(raw_data) :
              ~ParseableNonNegative(c[2].volume) =>
                  \E k \in 1..Len(long_df) :
                      long_df[k] =
                          VolumeRecord(c[1], TrailingMonth(c[2].month_str, now), 0)

\* a cell the try block cannot turn into a record: a month key that is no
\* number or no month, a volume int() rejects
BadCell(cell) == ~ValidMonthKey(cell.month_str) \/ VolumeInt(cell.volume).err

WithoutBadCells(json_data) ==
    LET Clean(item) ==
            IF HasCells(item)
            THEN [item EXCEPT !.monthly_sv.cells =
                     SelectSeq(@, LAMBDA cell : ~BadCell(cell))]
            ELSE item
        items == json_data.data.items
    IN  [json_data EXCEPT !.data.items = [a \in 1..Len(items) |-> Clean(items[a])]]

\* C5: a cell that fails to parse is skipped with a diagnostic; the call
\* does not raise and returns the records it returns without the bad cells.
C5_BadCellIsSkipped ==
    Returns =>
        /\ ~processed.raised
        /\ long_df = process_mm_response(WithoutBadCells(raw_data), now).df
        /\ {<<debug_info[k].keyword, debug_info[k].month_str>> :
               k \in {x \in 1..Len(debug_info) : debug_info[x].kind = "cell_problem"}}
             = {<<c[1], c[2].month_str>> :
                  c \in {x \in PayloadCells(raw_data) : BadCell(x[2])}}

\* the volume of the last record of long_df for a (month, keyword) pair
LastVolume(df, d, kw) ==
    LET hits == {k \in 1..Len(df) : df[k].Date = d /\ df[k].Keyword = kw}
    IN  df[CHOOSE k \in hits : \A h \in hits : h <= k].Volume

RunError == \E k \in 1..Len(st_log) : st_log[k].kind = "run_failed"

\* C2: records that repeat a (keyword, month) pair do not make the pivot
\* fail; the volume table holds the volume of the last record of each pair.
C2_DuplicatesLastWriteWins ==
    (pc \notin {"fetch", "process", "pivot"} /\ HasDuplicates(long_df)) =>
        /\ ~RunError
        /\ \A k \in 1..Len(long_df) :
              /\ <<long_df[k].Date, long_df[k].Keyword>> \in DOMAIN wide_df.at
              /\ wide_df.at[<<long_df[k].Date, long_df[k].Keyword>>]
                    = LastVolume(long_df, long_df[k].Date, long_df[k].Keyword)

RECURSIVE SumNum(_, _, _)
SumNum(frame, d, columns) ==
    IF columns = {} THEN 0
    ELSE LET kw == CHOOSE c \in columns : TRUE
         IN  frame.at[<<d, kw>>].num + SumNum(frame, d, columns \ {kw})

\* the sum of a row of the pivot table over all its columns
RowTotal(d) == SumOver(wide_df, d, wide_df.columns)

\* C3: every share lies in [0, 100] and the shares of a row whose total is
\* > 0 sum to 100.
C3_SharesWithinBoundsAndSumTo100 ==
    pc = "rendered" =>
        \A d \in Range(sov_df.index) :
            /\ \A kw \in sov_df.columns :
                  LET share == sov_df.at[<<d, kw>>]
                  IN  share.den > 0 /\ 0 <= share.num /\ share.num <= 100 * share.den
            /\ RowTotal(d) > 0 => SumNum(sov_df, d, sov_df.columns) = 100 * RowTotal(d)

C6_FailureStatusRaises ==
    (pc = "returned" /\ (~raw_data.status.has \/ raw_data.status.v # "success")) =>
        /\ processed.raised
        /\ processed.error = "Exception"
        /\ raw_data.message.has => processed.error_message = raw_data.message.v
        /\ ~raw_data.message.has => processed.error_message = DefaultMessage
        /\ long_df = <<>>
        /\ actual_keywords = <<>>

\* a payload without status, with a message and keyword entries, was refused
C6_Witness ==
    /\ pc = "returned"
    /\ ~raw_data.status.has
    /\ raw_data.message.has
    /\ raw_data.data.items # <<>>
    /\ processed.raised
    /\ processed.error_message = raw_data.message.v

\* the data entries of the requests that returned a success response with
\* data, in request order
RECURSIVE EntriesOf(_, _)
EntriesOf(log, n) ==
    IF n = 0 THEN <<>>
    ELSE EntriesOf(log, n - 1) \o
         (IF ~log[n].raised /\ log[n].response.status.has
                /\ log[n].response.status.v = "success"
                /\ log[n].response.data.kind # "absent"
          THEN log[n].response.data.items ELSE <<>>)

FetchFailures == SelectSeq(st_log, LAMBDA notice : notice.kind = "fetch_failed")

FailedRequests == SelectSeq(api_log, LAMBDA entry : entry.raised)

C8_MonthResolvedToTrailingYear ==
    (pc = "returned" /\ ~processed.raised) =>
        /\ \A k \in 1..Len(long_df) :
              LET date == long_df[k].Date IN
              /\ date.d = 1
              /\ date.m \in 1..12
              /\ date.m <= now.m => date.y = now.y
              /\ date.m > now.m => date.y = now.y - 1
              /\ Period(date) \in (Period(now) - 11)..Period(now)
        /\ raw_data \in CanonicalPayloads =>
              /\ Len(long_df) = 12
              /\ {Period(long_df[k].Date) : k \in 1..Len(long_df)}
                    = (Period(now) - 11)..Period(now)

\* month 11 with the clock in May is dated in the previous year
C8_Witness ==
    /\ pc = "returned"
    /\ raw_data \in CanonicalPayloads
    /\ now.m = 5
    /\ \E k \in 1..Len(long_df) : long_df[k].Date = Date(now.y - 1, 11, 1)
    /\ \E k \in 1..Len(long_df) : long_df[k].Date = Date(now.y, 5, 1)

MonthLE(a, b) == a.y < b.y \/ (a.y = b.y /\ a.m <= b.m)

Filtered ==
    \/ pc \in {"share", "rendered"}
    \/ pc = "done" /\ \E k \in 1..Len(st_log) : st_log[k].kind = "empty_range"

\* C9: the filter keeps a month row exactly when startMonth <= its month
\* <= endMonth as (year, month), the days of the bounds ignored.
C9_FilterInclusiveByMonth ==
    Filtered =>
        /\ Range(wide_df_filtered.index) \subseteq Range(wide_df.index)
        /\ \A d \in Range(wide_df.index) :
              d \in Range(wide_df_filtered.index)
                  <=> (MonthLE(start_date, d) /\ MonthLE(d, end_date))

\* a row of the first of the month kept under a start date later in that month
C9_Witness ==
    /\ Filtered
    /\ \E d \in Range(wide_df_filtered.index) :
          /\ d.y = start_date.y /\ d.m = start_date.m /\ d.d < start_date.d
          /\ d.y = end_date.y /\ d.m = end_date.m

\* C10: every calendar month of the requested range is a row of the volume
\* table.
C10_EveryMonthOfRangeIsARow ==
    pc = "rendered" =>
        \A p \in Period(start_date)..Period(end_date) :
            \E d \in Range(volume_df.index) : Period(d) = p

\* the keywords that appear in at least one record
RecordKeywords == {long_df[k].Keyword : k \in 1..Len(long_df)}

\* C11: the share table and the volume table that are rendered have the
\* same columns, exactly the keywords that appear in at least one record,
\* a keyword named 'Total Volume' included; the per-row total is a column
\* of the share table only as such a keyword.
C11_TablesHaveTheKeywordColumns ==
    pc = "rendered" =>
        /\ sov_df.columns = volume_df.columns
        /\ sov_df.columns = RecordKeywords
        /\ \A d \in Range(sov_df.index) :
              \A kw \in RecordKeywords : <<d, kw>> \in DOMAIN volume_df.at

\* the pivot succeeded and the range filter has been applied
PastFilter == wide_df # EmptyFrame /\ pc # "filter"

\* the month rows of the pivot that lie in the requested range
Surviving == {d \in Range(wide_df.index) : MonthLE(start_date, d) /\ MonthLE(d, end_date)}

EmptyRangeNotices == SelectSeq(st_log, LAMBDA notice : notice.kind = "empty_range")

\* C12: when no month row lies in the range the run ends with the one
\* empty-range warning and neither a share nor a volume table; when rows
\* lie in the range, all of zeros or not, no such warning is given and the
\* tables are made with those rows.
C12_EmptyRangeIsSignalled ==
    PastFilter =>
        /\ Surviving = {} =>
              /\ pc = "done"
              /\ EmptyRangeNotices = <<Notice("warning", "empty_range", "")>>
              /\ ~RunError
              /\ sov_df = EmptyFrame
              /\ volume_df = EmptyFrame
        /\ Surviving # {} =>
              /\ EmptyRangeNotices = <<>>
              /\ pc \in {"share", "rendered"}
              /\ pc = "rendered" =>
                    /\ Range(sov_df.index) = Surviving
                    /\ Range(volume_df.index) = Surviving

\* the pivot had month rows, none of them in the range, and the warning
\* ended the run
C12_Witness ==
    /\ PastFilter
    /\ wide_df.index # <<>>
    /\ Surviving = {}
    /\ pc = "done"
    /\ EmptyRangeNotices # <<>>

\* a payload without keyword entries: no 'data', an empty list, or a list
\* none of whose elements is a JSON object
NoKeywordEntries(json_data) ==
    /\ json_data.data.kind \in {"absent", "list"}
    /\ \A k \in 1..Len(json_data.data.items) : ~json_data.data.items[k].isdict

\* C13: on a payload of status 'success' without keyword entries
\* process_mm_response does not raise and returns no record and no
\* keyword; missing or empty data is told by a warning, not by an error.
C13_NoEntriesReturnsEmpty ==
    (pc = "returned" /\ StatusOk(raw_data) /\ NoKeywordEntries(raw_data)) =>
        /\ ~processed.raised
        /\ processed.error = ""
        /\ processed.error_message = ""
        /\ long_df = <<>>
        /\ actual_keywords = <<>>
        /\ raw_data.data.items = <<>> =>
              processed.notices = <<Notice("warning", "empty_data", "")>>

\* a success payload with an empty data list was answered by the warning
C13_Witness ==
    /\ pc = "returned"
    /\ raw_data = Response(Some("success"), None, ListOf(<<>>))
    /\ ~processed.raised
    /\ long_df = <<>>
    /\ processed.notices # <<>>

====
